---- MODULE Spec2Model ----
(***************************************************************************)
(* A model of the blender-envmap pipeline: the cubemap face extraction of  *)
(* crop.py (face geometry, extract_cubemap_face, process_roughness_level,  *)
(* process_diffuse_cubemap, process_mip_levels), the container assembly of *)
(* create_ktx.py, run_command and main of blender-envmap.py, and the       *)
(* renderer script bake_cubemap.py.                                        *)
(*                                                                         *)
(* Specifications:                                                         *)
(*   SpecPure   the pure computations (face size, face table, cut          *)
(*              rectangles, file names) applied to bounded inputs          *)
(*   SpecKtx    create_specular_ktx and create_diffuse_ktx over a          *)
(*              filesystem that lacks up to MaxLost directories and files  *)
(*   SpecFace   one extract_cubemap_face call, process by process          *)
(*   SpecLevel  one process_roughness_level or process_diffuse_cubemap     *)
(*              call with its six concurrent extract_cubemap_face calls    *)
(*   Spec       process_mip_levels with its concurrent level tasks, over   *)
(*              the first NumMips mip levels and the diffuse level         *)
(*   SpecBake   one run_command call in parse mode, line by line           *)
(*   SpecMain   main of blender-envmap.py                                  *)
(*   SpecKtxMain  main of create_ktx.py over the filesystems of SpecKtx    *)
(*   SpecFair   Spec with weak fairness of its steps                       *)
(*   SpecTwice  extract_cubemap_face called twice with the same arguments  *)
(*   SpecRender bake_cubemap.py: bake_cubemap and the script's exit code   *)
(*   SpecPipe   process_mip_levels over all eleven levels, followed by     *)
(*              create_specular_ktx                                        *)
(***************************************************************************)
EXTENDS Integers, Sequences, FiniteSets, TLC

VARIABLES
    op,        \* SpecPure: the computation applied so far ("none" before)
    arg,       \* SpecPure: its input, [task, size]
    ret,       \* SpecPure: its result
    dirs,      \* the directories that exist under output/cropped
    files,     \* the face files that exist under output/cropped, <<dir, name>>
    lost,      \* SpecKtx: how many directories and files have been removed
    ktx,       \* per container: [pc, ret, exit, info] of its create_*_ktx call
    toolCalls, \* the invocations of the container tool so far, in order
    composites, \* the tasks whose composite image exists under output/
    co,        \* process_mip_levels: [pc, ret, loop]
    levels,    \* per task: [pc, ret] of its process_roughness_level or
               \* process_diffuse_cubemap call
    faces,     \* per face of the level under study: [pc, ret] of its
               \* extract_cubemap_face call
    spawned,   \* the tasks on whose behalf an image tool process was started
    fxlog,     \* SpecFace: the outcomes of the processes awaited so far
    tracker,   \* the progress tracker process_mip_levels works with:
               \* [mode, advances, rows, released]
    bake,      \* run_command in parse mode: [pc, current_mip, completed,
               \* line, nlines, surfaced, exit, ret]
    orch,      \* blender-envmap.py main: [pc, code]
    tool,      \* SpecTwice: how the image tool behaves, the same at every call
    content,   \* SpecTwice: the content of the output file, <<>> when absent
    runs,      \* SpecTwice: per finished call, its result and the content
               \* it left
    render     \* bake_cubemap.py: [pc, mip, attempted, written, failed, fatal,
               \* ret, code]

pureVars == <<op, arg, ret>>
fsVars == <<dirs, files>>
ktxVars == <<lost, ktx, toolCalls>>
cropVars == <<composites, co, levels, faces, spawned, fxlog, tracker>>
orchVars == <<bake, orch>>
sideVars == <<tool, content, runs, render>>
vars == <<op, arg, ret, dirs, files, lost, ktx, toolCalls,
          composites, co, levels, faces, spawned, fxlog, tracker, bake, orch,
          tool, content, runs, render>>

-----------------------------------------------------------------------------
(* Program constants *)

\* crop.py:15   MIP_LEVELS = list(range(10))
MipCount == 10
\* crop.py:92   base_size = 512
base_size == 512
\* crop.py:173  size = 32 (diffuse)
diffuse_size == 32
\* crop.py:119-126: six entries in each face table
FaceCount == 6

\* create_ktx.py:17  MIP_LEVELS = list(range(9))
KtxMipCount == 9
\* create_ktx.py:64  for i in range(1, 7)
KtxFaceEnd == 7
\* create_ktx.py:42  "--levels", "9"
SpecularLevelsArg == 9
\* create_ktx.py:145  "--levels", "1"
DiffuseLevelsArg == 1

(* Bounds *)

\* SpecKtx: how many directories and files may be missing
MaxLost == 2

\* Spec, SpecLevel: the mip levels 0 .. NumMips-1 take part (MIP_LEVELS cut
\* short), next to the diffuse level
NumMips == 3

\* the largest face size of the "any faceSize > 0" computations
MaxFaceSize == 8

-----------------------------------------------------------------------------
(* Tasks.  process_mip_levels appends one task per mip level, in the order *)
(* of MIP_LEVELS, and then the diffuse task (crop.py:268-286); a task is   *)
(* named by its position in that list.                                     *)

AllTasks == 1 .. (MipCount + 1)
\* the tasks of a run over the first NumMips mip levels
RunTasks == (1 .. NumMips) \cup {MipCount + 1}
IsMipTask(t) == t <= MipCount
\* crop.py:269  for i, mip_level in enumerate(MIP_LEVELS)
MipLevelOf(t) == t - 1

(* The progress tracker as process_mip_levels uses it.  mode: "own" when   *)
(* the coordinator creates its tracker (crop.py:244-255), "external" when  *)
(* one is supplied with a task id (crop.py:241), "none" for a level called *)
(* without a tracker.  advances counts the advance=1/11 updates of the     *)
(* external slot, rows the sub-task rows added with add_task, stepped the  *)
(* advance=1 updates of the coordinator's own row, released the calls of   *)
(* __exit__.                                                               *)
TrackerNew(mode) ==
    [mode |-> mode, advances |-> 0, rows |-> 0, stepped |-> 0, released |-> 0]

\* progress.update(task_id, advance=1/11), n times
Advance(tr, n) == [tr EXCEPT !.advances = @ + n]
\* progress.add_task(...)
AddRow(tr) == [tr EXCEPT !.rows = @ + 1]

\* the variables of the repeated extraction and of the renderer script in
\* the specifications that do not run them
RerunUnused == tool = <<>> /\ content = <<>> /\ runs = <<>>
RenderUnused == render = [pc |-> "unused"]
SideUnused == RerunUnused /\ RenderUnused

\* the orchestrator's variables in the specifications that do not run it
OrchUnused ==
    /\ bake = [pc |-> "unused"]
    /\ orch = [pc |-> "unused"]

\* the value of the extraction's variables in the specifications that do
\* not run it
CropUnused ==
    /\ composites = {}
    /\ co = [pc |-> "unused", ret |-> FALSE, loop |-> "closed"]
    /\ levels = <<>>
    /\ faces = <<>>
    /\ spawned = {}
    /\ fxlog = <<>>
    /\ tracker = TrackerNew("none")

(* File names.  A name "dddd.exr" is modelled by its four digits.          *)
Name0001 == <<0, 0, 0, 1>>
Name0002 == <<0, 0, 0, 2>>
Name0003 == <<0, 0, 0, 3>>
Name0004 == <<0, 0, 0, 4>>
Name0005 == <<0, 0, 0, 5>>
Name0006 == <<0, 0, 0, 6>>

-----------------------------------------------------------------------------
(* Face geometry *)

\* crop.py:93   size = base_size // (2 ** mip_level)
MipFaceSize(mip_level) == base_size \div (2 ^ mip_level)

\* crop.py:119-126  the face table of process_roughness_level
MipFaces(size) ==
    << <<Name0001, size * 3, size>>,
       <<Name0002, size, size>>,
       <<Name0003, size * 2, 0>>,
       <<Name0004, size * 2, size * 2>>,
       <<Name0005, size * 2, size>>,
       <<Name0006, 0, size>> >>

DiffuseFacesSwapped(size) ==
    << <<Name0001, size, size>>,
       <<Name0002, size * 3, size>>,
       <<Name0003, size * 2, 0>>,
       <<Name0004, size * 2, size * 2>>,
       <<Name0005, size * 2, size>>,
       <<Name0006, 0, size>> >>

\* crop.py:196-203  the face table of process_diffuse_cubemap
DiffuseFaces(size) ==
    << <<Name0001, size * 3, size>>,
       <<Name0002, size, size>>,
       <<Name0003, size * 2, 0>>,
       <<Name0004, size * 2, size * 2>>,
       <<Name0005, size * 2, size>>,
       <<Name0006, 0, size>> >>

TaskFaceSize(t) == IF IsMipTask(t) THEN MipFaceSize(MipLevelOf(t)) ELSE diffuse_size

TaskFaces(t, size) == IF IsMipTask(t) THEN MipFaces(size) ELSE DiffuseFaces(size)

\* crop.py:29  "--cut", f"{x},{y},{x+size-1},{y+size-1}": the rectangle the
\* image tool cuts, both corners inclusive
CutRectExclusiveEnd(x, y, size) ==
    [x0 |-> x, y0 |-> y, x1 |-> x + size, y1 |-> y + size]

CutRect(x, y, size) ==
    [x0 |-> x, y0 |-> y, x1 |-> x + size - 1, y1 |-> y + size - 1]

\* the six rectangles cut for a task at a face size
TaskRects(t, size) ==
    [k \in 1 .. FaceCount |->
        CutRect(TaskFaces(t, size)[k][2], TaskFaces(t, size)[k][3], size)]

-----------------------------------------------------------------------------
(* The filesystem under output/cropped.  A directory is named <<"mip", i>> *)
(* (f"mip{i}") or <<"diffuse">>; a face file is <<directory, name>>.       *)

\* crop.py:270 and create_ktx.py:56  f"mip{mip_level}"
MipDir(mip_level) == <<"mip", mip_level>>
\* crop.py:176 and create_ktx.py:132  os.path.join(..., "diffuse")
DiffuseDir == <<"diffuse">>

\* create_ktx.py:65  f"{i:04d}.exr"
Fmt04d(i) == <<(i \div 1000) % 10, (i \div 100) % 10, (i \div 10) % 10, i % 10>>

\* the directory a task of the extraction writes to
TaskDir(t) == IF IsMipTask(t) THEN MipDir(MipLevelOf(t)) ELSE DiffuseDir

\* everything a complete extraction leaves behind (crop.py:139-149, 209-211)
AllDirs == {TaskDir(t) : t \in AllTasks}
AllFiles ==
    {<<TaskDir(t), TaskFaces(t, TaskFaceSize(t))[k][1]>> :
        t \in AllTasks, k \in 1 .. FaceCount}

-----------------------------------------------------------------------------
(* create_ktx.py *)

NoScan == [input_files |-> <<>>, missing_files |-> <<>>]

ScanFacesDescending(face_dir, fsFiles) ==
    LET F[i \in 0 .. (KtxFaceEnd - 1)] ==
            IF i = 0 THEN [input_files |-> <<>>, missing_files |-> <<>>]
            ELSE LET face_file == <<face_dir, Fmt04d(i)>>
                     prev == F[i - 1]
                 IN  IF face_file \notin fsFiles
                     THEN [prev EXCEPT !.missing_files = <<face_file>> \o @]
                     ELSE [prev EXCEPT !.input_files = <<face_file>> \o @]
    IN  F[KtxFaceEnd - 1]

\* create_ktx.py:64-70 (and 160-166): the six faces of one directory, in
\* ascending face order; a file that is absent goes to missing_files
ScanFaces(face_dir, fsFiles) ==
    LET F[i \in 0 .. (KtxFaceEnd - 1)] ==
            IF i = 0 THEN NoScan
            ELSE LET face_file == <<face_dir, Fmt04d(i)>>
                     prev == F[i - 1]
                 IN  IF face_file \notin fsFiles
                     THEN [prev EXCEPT !.missing_files = Append(@, face_file)]
                     ELSE [prev EXCEPT !.input_files = Append(@, face_file)]
    IN  F[KtxFaceEnd - 1]

\* create_ktx.py:55-74: the loop over MIP_LEVELS; a mip directory that is
\* absent is skipped with a warning (continue) and adds nothing to either list
SpecularScan(fsDirs, fsFiles) ==
    LET S[n \in 0 .. KtxMipCount] ==
            IF n = 0 THEN NoScan
            ELSE LET mip_level == n - 1
                     mip_dir == MipDir(mip_level)
                     prev == S[n - 1]
                 IN  IF mip_dir \notin fsDirs
                     THEN prev
                     ELSE LET f == ScanFaces(mip_dir, fsFiles)
                          IN  [input_files |-> prev.input_files \o f.input_files,
                               missing_files |-> prev.missing_files \o f.missing_files]
    IN  S[KtxMipCount]

\* create_ktx.py:32, 35-43, 83-86: the command line of the specular container:
\* the options with --levels, then the input files, then the output path
SpecularCmd(input_files) ==
    [levels |-> SpecularLevelsArg, files |-> input_files, out |-> "_specular.ktx2"]

DiffuseCmdNineLevels(input_files) ==
    [levels |-> SpecularLevelsArg, files |-> input_files, out |-> "_diffuse.ktx2"]

\* create_ktx.py:138, 141-148, 179-182: the command line of the diffuse container
DiffuseCmd(input_files) ==
    [levels |-> DiffuseLevelsArg, files |-> input_files, out |-> "_diffuse.ktx2"]

\* the outcomes of subprocess.run(ktx_cmd): it raises, or the tool exits
ToolExits == {"raise", "nonzero", "zero"}
\* the outcomes of the "ktx info | grep vkFormat" read-back and of
\* format_info.stdout.strip().split(': ')[1] (create_ktx.py:114-119)
InfoOutcomes == {"raise", "no_field", "field"}

\* create_ktx.py:98-125 (and 194-221): the result once the tool was run
KtxResult(exit, info) ==
    IF exit = "raise" THEN FALSE              \* except Exception: return False
    ELSE IF exit = "nonzero" THEN FALSE       \* returncode != 0
    ELSE IF info = "raise" THEN FALSE         \* the read-back raises
    ELSE IF info = "no_field" THEN FALSE      \* split(': ')[1]: IndexError
    ELSE TRUE

KtxIdle == [pc |-> "idle", ret |-> FALSE, exit |-> "none", info |-> "none"]

\* create_ktx.py:27-125
create_specular_ktx ==
    /\ ktx["specular"].pc = "idle"
    /\ LET scan == SpecularScan(dirs, files)
       IN  IF scan.missing_files # <<>>
           THEN /\ ktx' = [ktx EXCEPT !["specular"] =
                               [pc |-> "done", ret |-> FALSE,
                                exit |-> "none", info |-> "none"]]
                /\ UNCHANGED toolCalls
           ELSE \E exit \in ToolExits :
                \E info \in (IF exit = "zero" THEN InfoOutcomes ELSE {"none"}) :
                   /\ toolCalls' = Append(toolCalls, SpecularCmd(scan.input_files))
                   /\ ktx' = [ktx EXCEPT !["specular"] =
                                  [pc |-> "done", ret |-> KtxResult(exit, info),
                                   exit |-> exit, info |-> info]]
    /\ UNCHANGED <<pureVars, sideVars, orchVars, fsVars, lost, cropVars>>

\* create_ktx.py:127-221
create_diffuse_ktx ==
    /\ ktx["diffuse"].pc = "idle"
    /\ IF DiffuseDir \notin dirs
       THEN /\ ktx' = [ktx EXCEPT !["diffuse"] =
                           [pc |-> "done", ret |-> FALSE,
                            exit |-> "none", info |-> "none"]]
            /\ UNCHANGED toolCalls
       ELSE LET scan == ScanFaces(DiffuseDir, files)
            IN  IF scan.missing_files # <<>>
                THEN /\ ktx' = [ktx EXCEPT !["diffuse"] =
                                    [pc |-> "done", ret |-> FALSE,
                                     exit |-> "none", info |-> "none"]]
                     /\ UNCHANGED toolCalls
                ELSE \E exit \in ToolExits :
                     \E info \in (IF exit = "zero" THEN InfoOutcomes ELSE {"none"}) :
                        /\ toolCalls' = Append(toolCalls, DiffuseCmd(scan.input_files))
                        /\ ktx' = [ktx EXCEPT !["diffuse"] =
                                       [pc |-> "done", ret |-> KtxResult(exit, info),
                                        exit |-> exit, info |-> info]]
    /\ UNCHANGED <<pureVars, sideVars, orchVars, fsVars, lost, cropVars>>

(* The filesystem the container stage finds: what a complete extraction    *)
(* leaves, less up to MaxLost directories (with their files) and files     *)
(* that an earlier stage failed to produce.                                *)

KtxNotStarted == \A c \in DOMAIN ktx : ktx[c].pc = "idle"

\* os.path.exists(face_file) is false (create_ktx.py:66, 162)
LoseFile ==
    /\ KtxNotStarted
    /\ lost < MaxLost
    /\ \E f \in files : files' = files \ {f}
    /\ lost' = lost + 1
    /\ UNCHANGED <<pureVars, sideVars, orchVars, dirs, ktx, toolCalls, cropVars>>

\* os.path.exists(mip_dir) is false (create_ktx.py:57, 133)
LoseDir ==
    /\ KtxNotStarted
    /\ lost < MaxLost
    /\ \E d \in dirs :
          /\ dirs' = dirs \ {d}
          /\ files' = {f \in files : f[1] # d}
    /\ lost' = lost + 1
    /\ UNCHANGED <<pureVars, sideVars, orchVars, ktx, toolCalls, cropVars>>

KtxInit ==
    /\ op = "none" /\ arg = [task |-> 1, size |-> 1] /\ ret = <<>>
    /\ dirs = AllDirs
    /\ files = AllFiles
    /\ lost = 0
    /\ ktx = [c \in {"specular", "diffuse"} |-> KtxIdle]
    /\ toolCalls = <<>> /\ SideUnused
    /\ CropUnused
    /\ OrchUnused

KtxNext == LoseFile \/ LoseDir \/ create_specular_ktx \/ create_diffuse_ktx

SpecKtx == KtxInit /\ [][KtxNext]_vars

-----------------------------------------------------------------------------
(* SpecPure: the pure computations on bounded inputs *)

PureInit ==
    /\ op = "none"
    /\ arg \in [task : AllTasks,
                 size : (1 .. MaxFaceSize) \cup {TaskFaceSize(t) : t \in AllTasks}]
    /\ ret = <<>>
    /\ dirs = {} /\ files = {}
    /\ lost = 0 /\ ktx = <<>> /\ toolCalls = <<>> /\ SideUnused
    /\ CropUnused
    /\ OrchUnused

\* the face size a level uses
FaceSizeStep ==
    /\ op = "none"
    /\ op' = "size"
    /\ ret' = TaskFaceSize(arg.task)
    /\ UNCHANGED <<arg, sideVars, orchVars, fsVars, ktxVars, cropVars>>

\* the face table a level uses, at the level's own face size
LevelFacesStep ==
    /\ op = "none"
    /\ op' = "faces"
    /\ ret' = TaskFaces(arg.task, TaskFaceSize(arg.task))
    /\ UNCHANGED <<arg, sideVars, orchVars, fsVars, ktxVars, cropVars>>

\* the six rectangles cut from a composite for face size arg.size
CutRectsStep ==
    /\ op = "none"
    /\ op' = "rects"
    /\ ret' = TaskRects(arg.task, arg.size)
    /\ UNCHANGED <<arg, sideVars, orchVars, fsVars, ktxVars, cropVars>>

\* every task writes into the same directory, under the bare face name
OutputPathNoSubdir(t, k) == << <<"cropped">>, TaskFaces(t, TaskFaceSize(t))[k][1] >>

\* the path extract_cubemap_face writes face k of a task to
\* (crop.py:139-149, 209-211; output_subdir is always given, crop.py:273, 276)
OutputPath(t, k) == <<TaskDir(t), TaskFaces(t, TaskFaceSize(t))[k][1]>>

\* paths, component by component.  crop.py:18, 96-98, 146, 176, 210:
\* os.path.join(OUTPUT_DIR, subdir, "000k.exr") with OUTPUT_DIR =
\* "output/cropped"
OutputFilePath(t, k) ==
    << <<"output">>, <<"cropped">>, OutputPath(t, k)[1], OutputPath(t, k)[2],
       <<"exr">> >>

\* crop.py:89  f"output/cubemap_mip{mip_level}.hdr"
\* crop.py:170  "output/cubemap_diffuse.hdr"
CompositePath(t) ==
    << <<"output">>,
       IF IsMipTask(t) THEN <<"cubemap_mip", MipLevelOf(t)>> ELSE <<"cubemap_diffuse">>,
       <<"hdr">> >>

\* the paths a level call reads and writes
PathsStep ==
    /\ op = "none"
    /\ op' = "paths"
    /\ ret' = [inp |-> CompositePath(arg.task),
               out |-> [k \in 1 .. FaceCount |-> OutputFilePath(arg.task, k)]]
    /\ UNCHANGED <<arg, sideVars, orchVars, fsVars, ktxVars, cropVars>>

\* the files the container stage passes for a level's directory, in order,
\* when the extraction has left every face file
KtxOrderStep ==
    /\ op = "none"
    /\ op' = "ktx_order"
    /\ ret' = ScanFaces(TaskDir(arg.task), AllFiles).input_files
    /\ UNCHANGED <<arg, sideVars, orchVars, fsVars, ktxVars, cropVars>>

\* bake_cubemap.py:113
bake_base_size == 512

\* bake_cubemap.py:294  create_bake_image(diffuse_image_name, output_dir, 4)
diffuse_bake_mip == 4

\* the composite is made one level smaller than its mip level asks for
BakeResolutionLevelBelow(mip_level) ==
    IF bake_base_size \div (2 ^ (mip_level + 1)) >= 1
    THEN bake_base_size \div (2 ^ (mip_level + 1)) ELSE 1

\* bake_cubemap.py:114  max(1, base_size // (2 ** mip_level))
BakeResolution(mip_level) ==
    IF bake_base_size \div (2 ^ mip_level) >= 1
    THEN bake_base_size \div (2 ^ mip_level) ELSE 1

\* bake_cubemap.py:261-262, 291-294: the name and the mip level that
\* bake_cubemap passes to create_bake_image for a task's composite
BakeImageName(t) ==
    IF IsMipTask(t) THEN <<"cubemap_mip", MipLevelOf(t)>> ELSE <<"cubemap_diffuse">>
BakeImageMip(t) == IF IsMipTask(t) THEN MipLevelOf(t) ELSE diffuse_bake_mip

\* bake_cubemap.py:5-9, 111-120, 233, 311: the composite of a task as the
\* bake creates and saves it: output/<name>.hdr under the working
\* directory, 4 x 3 cells of the resolution
BakeImage(t) ==
    [path |-> << <<"output">>, BakeImageName(t), <<"hdr">> >>,
     width |-> BakeResolution(BakeImageMip(t)) * 4,
     height |-> BakeResolution(BakeImageMip(t)) * 3]

\* the composite the bake writes for a task, and what the extraction of
\* that task reads and cuts
BakeAndCutStep ==
    /\ op = "none"
    /\ op' = "bake"
    /\ ret' = [image |-> BakeImage(arg.task),
               inp |-> CompositePath(arg.task),
               rects |-> TaskRects(arg.task, TaskFaceSize(arg.task))]
    /\ UNCHANGED <<arg, sideVars, orchVars, fsVars, ktxVars, cropVars>>

PureNext ==
    \/ FaceSizeStep \/ LevelFacesStep \/ CutRectsStep \/ KtxOrderStep
    \/ PathsStep \/ BakeAndCutStep

SpecPure == PureInit /\ [][PureNext]_vars

-----------------------------------------------------------------------------
(* Claims on the face geometry (SpecPure) *)

Max(a, b) == IF a >= b THEN a ELSE b

\* C6 (as claimed): for every mip index i in 0..9 the face size the
\* extraction uses is max(8, 512 / 2^i), so 8 for the indices 7, 8 and 9.
C6_FaceSizeClamped ==
    (op = "size" /\ IsMipTask(arg.task)) =>
        ret = Max(8, 512 \div (2 ^ MipLevelOf(arg.task)))

RectsDisjoint(a, b) ==
    \/ a.x1 < b.x0 \/ b.x1 < a.x0
    \/ a.y1 < b.y0 \/ b.y1 < a.y0

RectInCanvas(r, w, h) ==
    /\ 0 <= r.x0 /\ r.x0 <= r.x1 /\ r.x1 <= w - 1
    /\ 0 <= r.y0 /\ r.y0 <= r.y1 /\ r.y1 <= h - 1

\* C7: for every face size > 0 the six rectangles cut are size x size
\* pixels each, pairwise disjoint, and inside a canvas of 4*size by 3*size.
C7_RectsDisjointInCanvas ==
    op = "rects" =>
        /\ \A k \in 1 .. 6 :
              /\ RectInCanvas(ret[k], 4 * arg.size, 3 * arg.size)
              /\ ret[k].x1 - ret[k].x0 + 1 = arg.size
              /\ ret[k].y1 - ret[k].y0 + 1 = arg.size
        /\ \A j, k \in 1 .. 6 : j # k => RectsDisjoint(ret[j], ret[k])

C7_Witness ==
    /\ op = "rects" /\ arg.size = 3 /\ arg.task = 1
    /\ ret[1] = [x0 |-> 9, y0 |-> 3, x1 |-> 11, y1 |-> 5]

\* the cells of the specification's table, by file index 1..6:
\* BACK, FRONT, TOP, BOTTOM, RIGHT, LEFT
TableCells == << <<3, 1>>, <<1, 1>>, <<2, 0>>, <<2, 2>>, <<2, 1>>, <<0, 1>> >>

\* C8: every mip level and the diffuse level use the same face table, file
\* 000k.exr being cut at cell TableCells[k] times the face size, and the
\* container stage passes as k-th file of a level the file the extraction
\* wrote for face k.
C8_FaceTable ==
    /\ op = "faces" =>
          \A k \in 1 .. 6 :
              ret[k] = << <<0, 0, 0, k>>,
                          TableCells[k][1] * TaskFaceSize(arg.task),
                          TableCells[k][2] * TaskFaceSize(arg.task) >>
    /\ op = "ktx_order" =>
          /\ Len(ret) = 6
          /\ \A k \in 1 .. 6 : ret[k] = OutputPath(arg.task, k)

C8_Witness ==
    /\ op = "faces" /\ ~IsMipTask(arg.task)
    /\ ret[4] = << <<0, 0, 0, 4>>, 64, 64 >>

-----------------------------------------------------------------------------
(* Claims on the container assembly (SpecKtx) *)

\* the files the specular container needs: mip 0..8 x face 0001..0006
SpecularRequired ==
    {<< <<"mip", m>>, <<0, 0, 0, k>> >> : m \in 0 .. 8, k \in 1 .. 6}

\* the invocations of the container tool that write the specular container
SpecularCalls ==
    {n \in 1 .. Len(toolCalls) : toolCalls[n].out = "_specular.ktx2"}

\* C4 (as claimed): whenever a file of the specular set is missing, a whole
\* mip directory included, create_specular_ktx returns failure and has
\* invoked the container tool zero times.
C4_MissingFileNoTool ==
    (ktx["specular"].pc = "done" /\ ~(SpecularRequired \subseteq files)) =>
        /\ ktx["specular"].ret = FALSE
        /\ SpecularCalls = {}

\* the 54 files in mip-major, face-minor order
MipMajorOrder ==
    [n \in 1 .. 54 |->
        << <<"mip", (n - 1) \div 6>>, <<0, 0, 0, ((n - 1) % 6) + 1>> >>]

-----------------------------------------------------------------------------
(* crop.py: extract_cubemap_face *)

\* how an awaited image tool process ends: create_subprocess_exec or
\* communicate raises, or the process exits
ProcExits == {"raise", "nonzero", "zero"}

\* the dimension query (crop.py:48-57): how it ends, and whether the text
\* f"{size} x {size}" occurs in what it printed
VerifyOutcomes ==
    {[exit |-> "raise", found |-> FALSE]}
        \cup [exit : {"nonzero", "zero"}, found : BOOLEAN]

FaceNew == [pc |-> "new", ret |-> FALSE]
FaceReturn(b) == [pc |-> "done", ret |-> b]

AfterResizeEscalating(exit) ==
    IF exit = "zero" THEN FaceReturn(TRUE) ELSE FaceReturn(FALSE)

\* crop.py:34-44, 81-83: the cut process has ended
AfterCut(exit) ==
    IF exit = "raise" THEN FaceReturn(FALSE)
    ELSE IF exit # "zero" THEN FaceReturn(FALSE)
    ELSE [pc |-> "verify", ret |-> FALSE]

\* crop.py:50-60, 80-83: the dimension query has ended; its exit code is
\* not read
AfterVerify(out) ==
    IF out.exit = "raise" THEN FaceReturn(FALSE)
    ELSE IF ~out.found THEN [pc |-> "resize", ret |-> FALSE]
    ELSE FaceReturn(TRUE)

\* crop.py:70-83: the corrective pass has ended; a non-zero exit is printed
\* and nothing more
AfterResize(exit) ==
    IF exit = "raise" THEN FaceReturn(FALSE)
    ELSE FaceReturn(TRUE)

\* the task whose faces the variable faces holds (SpecFace, SpecLevel)
TheTask == CHOOSE t \in DOMAIN levels : TRUE

\* the cut writes next to the level's directory instead of into it
CutReturnsFlatPath(k, exit) ==
    /\ co.loop = "running"
    /\ faces[k].pc = "cut"
    /\ faces' = [faces EXCEPT ![k] = AfterCut(exit)]
    /\ files' = IF exit = "zero"
                THEN files \cup {<< <<"cropped">>, OutputPath(TheTask, k)[2] >>}
                ELSE files
    /\ UNCHANGED <<pureVars, sideVars, orchVars, ktxVars, dirs, composites, co, levels, spawned,
                   tracker>>

\* crop.py:34-44: the cut of face k ends; a cut that exits 0 has written
\* output_path
CutReturns(k, exit) ==
    /\ co.loop = "running"
    /\ faces[k].pc = "cut"
    /\ faces' = [faces EXCEPT ![k] = AfterCut(exit)]
    /\ files' = IF exit = "zero" THEN files \cup {OutputPath(TheTask, k)} ELSE files
    /\ UNCHANGED <<pureVars, sideVars, orchVars, ktxVars, dirs, composites, co, levels, spawned,
                   tracker>>

\* crop.py:46-60: the dimension query of face k ends
VerifyReturns(k, out) ==
    /\ co.loop = "running"
    /\ faces[k].pc = "verify"
    /\ faces' = [faces EXCEPT ![k] = AfterVerify(out)]
    /\ UNCHANGED <<pureVars, sideVars, orchVars, ktxVars, fsVars, composites, co, levels, spawned,
                   tracker>>

\* crop.py:63-80: the corrective pass of face k ends
ResizeReturns(k, exit) ==
    /\ co.loop = "running"
    /\ faces[k].pc = "resize"
    /\ faces' = [faces EXCEPT ![k] = AfterResize(exit)]
    /\ UNCHANGED <<pureVars, sideVars, orchVars, ktxVars, fsVars, composites, co, levels, spawned,
                   tracker>>

-----------------------------------------------------------------------------
(* crop.py: process_roughness_level and process_diffuse_cubemap *)

LevelNew == [pc |-> "new", ret |-> FALSE]
LevelReturn(b) == [pc |-> "done", ret |-> b]
LevelRaised == [pc |-> "raised", ret |-> FALSE]

AnyTrue(results) == \E k \in DOMAIN results : results[k]

\* crop.py:163, 224, 298  all(...)
AllTrue(results) == \A k \in DOMAIN results : results[k]

\* crop.py:139-152 and 209-214: the six extract_cubemap_face calls are
\* created and gathered; each runs up to the await of its cut process
StartFaces == [k \in 1 .. FaceCount |-> [pc |-> "cut", ret |-> FALSE]]

\* crop.py:110-116: the composite info query of process_roughness_level has
\* ended; it is awaited outside any try, and its result is not read
AfterInfo(exit) ==
    IF exit = "raise" THEN LevelRaised
    ELSE [pc |-> "faces", ret |-> FALSE]

BeginLevelUnchecked(t) ==
    /\ co.loop = "running"
    /\ levels[t].pc = "new"
    /\ dirs' = dirs \cup {TaskDir(t)}
    /\ levels' = [levels EXCEPT ![t] =
           IF IsMipTask(t) THEN [pc |-> "info", ret |-> FALSE]
           ELSE [pc |-> "faces", ret |-> FALSE]]
    /\ spawned' = spawned \cup {t}
    /\ tracker' = IF ~IsMipTask(t) /\ tracker.mode = "own"
                  THEN AddRow(tracker) ELSE tracker
    /\ UNCHANGED <<pureVars, sideVars, orchVars, ktxVars, files, composites, co, fxlog>>

\* the directory is made only once the composite was found
BeginLevelDirAfterCheck(t) ==
    /\ co.loop = "running"
    /\ levels[t].pc = "new"
    /\ IF t \notin composites
       THEN /\ levels' = [levels EXCEPT ![t] = LevelReturn(FALSE)]
            /\ UNCHANGED <<spawned, tracker, dirs>>
       ELSE /\ levels' = [levels EXCEPT ![t] =
                   IF IsMipTask(t) THEN [pc |-> "info", ret |-> FALSE]
                   ELSE [pc |-> "faces", ret |-> FALSE]]
            /\ dirs' = dirs \cup {TaskDir(t)}
            /\ spawned' = spawned \cup {t}
            /\ tracker' = IF ~IsMipTask(t) /\ tracker.mode = "own"
                          THEN AddRow(tracker) ELSE tracker
    /\ UNCHANGED <<pureVars, sideVars, orchVars, ktxVars, files, composites, co, fxlog>>

\* crop.py:88-116 and 170-214: a level task runs from its start to its
\* first await: it creates its directory, returns False when its composite
\* is absent, and else awaits the info query (a mip level) or its six face
\* extractions (the diffuse level), for which it first adds its row to the
\* coordinator's own tracker (crop.py:189-190)
BeginLevel(t) ==
    /\ co.loop = "running"
    /\ levels[t].pc = "new"
    /\ dirs' = dirs \cup {TaskDir(t)}
    /\ IF t \notin composites
       THEN /\ levels' = [levels EXCEPT ![t] = LevelReturn(FALSE)]
            /\ UNCHANGED <<spawned, tracker>>
       ELSE /\ levels' = [levels EXCEPT ![t] =
                   IF IsMipTask(t) THEN [pc |-> "info", ret |-> FALSE]
                   ELSE [pc |-> "faces", ret |-> FALSE]]
            /\ spawned' = spawned \cup {t}
            /\ tracker' = IF ~IsMipTask(t) /\ tracker.mode = "own"
                          THEN AddRow(tracker) ELSE tracker
    /\ UNCHANGED <<pureVars, sideVars, orchVars, ktxVars, files, composites, co, fxlog>>

\* crop.py:110-152: the info query ends; on any exit the level goes on to
\* its six face extractions, after adding its row when it was given a
\* tracker (crop.py:134-136)
InfoReturns(t, exit) ==
    /\ co.loop = "running"
    /\ levels[t].pc = "info"
    /\ levels' = [levels EXCEPT ![t] = AfterInfo(exit)]
    /\ tracker' = IF exit # "raise" /\ tracker.mode = "own"
                  THEN AddRow(tracker) ELSE tracker
    /\ UNCHANGED <<pureVars, sideVars, orchVars, ktxVars, fsVars, composites, co, spawned, fxlog>>

\* crop.py:152-166 and 214-227: gather has the six results; a mip level
\* steps the coordinator's own row (crop.py:159-160), the diffuse level
\* advances the external slot by 1/11 (crop.py:219-221)
FacesGathered(t, face_results) ==
    /\ co.loop = "running"
    /\ levels[t].pc = "faces"
    /\ levels' = [levels EXCEPT ![t] = LevelReturn(AllTrue(face_results))]
    /\ tracker' =
          IF IsMipTask(t) /\ tracker.mode = "own"
          THEN [tracker EXCEPT !.stepped = @ + 1]
          ELSE IF ~IsMipTask(t) /\ tracker.mode = "external"
          THEN Advance(tracker, 1)
          ELSE tracker
    /\ UNCHANGED <<pureVars, sideVars, orchVars, ktxVars, fsVars, composites, co, spawned, fxlog>>

-----------------------------------------------------------------------------
(* SpecFace: one extract_cubemap_face call, for any task and face *)

CropIdle ==
    /\ op = "none" /\ arg = [task |-> 1, size |-> 1] /\ ret = <<>>
    /\ lost = 0 /\ ktx = <<>> /\ toolCalls = <<>> /\ SideUnused
    /\ dirs = {} /\ files = {}
    /\ OrchUnused

FaceInit ==
    /\ CropIdle
    /\ \E t \in AllTasks, k \in 1 .. FaceCount :
          /\ levels = [x \in {t} |-> [pc |-> "faces", ret |-> FALSE]]
          /\ faces = [j \in {k} |-> [pc |-> "cut", ret |-> FALSE]]
          /\ composites = {t}
          /\ spawned = {t}
    /\ co = [pc |-> "direct", ret |-> FALSE, loop |-> "running"]
    /\ fxlog = <<>>
    /\ tracker = TrackerNew("none")

FaceCut ==
    \E k \in DOMAIN faces, exit \in ProcExits :
        /\ CutReturns(k, exit)
        /\ fxlog' = Append(fxlog, [step |-> "cut", exit |-> exit, found |-> FALSE,
                                   rep |-> <<>>])

\* decimal text, as a sequence of characters
DigitChars == <<"0", "1", "2", "3", "4", "5", "6", "7", "8", "9">>

RECURSIVE Str(_)
Str(n) == IF n < 10 THEN <<DigitChars[n + 1]>>
          ELSE Str(n \div 10) \o <<DigitChars[(n % 10) + 1]>>

\* Python's  needle in hay  on strings
Contains(needle, hay) ==
    \E i \in 1 .. (Len(hay) - Len(needle) + 1) :
        SubSeq(hay, i, i + Len(needle) - 1) = needle

\* crop.py:60  f"{size} x {size}"
SizeText(size) == Str(size) \o <<" ", "x", " ">> \o Str(size)

\* what the dimension query can report of the file: nothing (<<>>, the
\* file could not be read) or a width and a height, each one of the face
\* sizes of the pipeline
ReportedSizes == {TaskFaceSize(t) : t \in AllTasks}
Reports == {<<>>} \cup (ReportedSizes \X ReportedSizes)

\* crop.py:56-57: the text the dimension query printed, stripped: the file
\* (one character here), its dimensions, and the rest of the description
InfoOutput(rep) ==
    IF rep = <<>> THEN <<>>
    ELSE <<"f", " ", ":", " ">> \o Str(rep[1]) \o <<" ", "x", " ">> \o Str(rep[2])
            \o <<",">>

\* crop.py:46-60: the dimension query as the code reads it: its exit code
\* is not read, and the size is taken for right when the text
\* f"{size} x {size}" occurs anywhere in the output
VerifyOutcome(exit, rep, size) ==
    IF exit = "raise" THEN [exit |-> "raise", found |-> FALSE]
    ELSE [exit |-> exit, found |-> Contains(SizeText(size), InfoOutput(rep))]

FaceVerify ==
    \E k \in DOMAIN faces, exit \in ProcExits, rep \in Reports :
        /\ exit = "raise" => rep = <<>>
        /\ VerifyReturns(k, VerifyOutcome(exit, rep, TaskFaceSize(TheTask)))
        /\ fxlog' = Append(fxlog,
               [step |-> "verify", exit |-> exit,
                found |-> VerifyOutcome(exit, rep, TaskFaceSize(TheTask)).found,
                rep |-> rep])

FaceResize ==
    \E k \in DOMAIN faces, exit \in ProcExits :
        /\ ResizeReturns(k, exit)
        /\ fxlog' = Append(fxlog, [step |-> "resize", exit |-> exit, found |-> FALSE,
                                   rep |-> <<>>])

FaceNext == FaceCut \/ FaceVerify \/ FaceResize

SpecFace == FaceInit /\ [][FaceNext]_vars

-----------------------------------------------------------------------------
(* SpecLevel: one level call with its six face extractions in flight *)

LevelInit ==
    /\ CropIdle
    /\ \/ \E t \in RunTasks :
             /\ levels = [x \in {t} |-> LevelNew]
             /\ composites = {t}
       \/ \E t \in AllTasks :
             /\ levels = [x \in {t} |-> LevelNew]
             /\ composites = {}
    /\ faces = [k \in 1 .. FaceCount |-> FaceNew]
    /\ spawned = {}
    /\ co = [pc |-> "direct", ret |-> FALSE, loop |-> "running"]
    /\ fxlog = <<>>
    /\ tracker = TrackerNew("none")

LevelBegin ==
    /\ BeginLevel(TheTask)
    /\ faces' = IF levels'[TheTask].pc = "faces" THEN StartFaces ELSE faces

LevelInfo ==
    \E exit \in ProcExits :
        /\ InfoReturns(TheTask, exit)
        /\ faces' = IF levels'[TheTask].pc = "faces" THEN StartFaces ELSE faces

LevelFaceCut ==
    \E k \in DOMAIN faces, exit \in ProcExits :
        CutReturns(k, exit) /\ UNCHANGED fxlog

LevelFaceVerify ==
    \E k \in DOMAIN faces, out \in VerifyOutcomes :
        VerifyReturns(k, out) /\ UNCHANGED fxlog

LevelFaceResize ==
    \E k \in DOMAIN faces, exit \in ProcExits :
        ResizeReturns(k, exit) /\ UNCHANGED fxlog

LevelGather ==
    /\ \A k \in DOMAIN faces : faces[k].pc = "done"
    /\ FacesGathered(TheTask, [k \in DOMAIN faces |-> faces[k].ret])
    /\ UNCHANGED faces

LevelNext ==
    \/ LevelBegin \/ LevelInfo
    \/ LevelFaceCut \/ LevelFaceVerify \/ LevelFaceResize
    \/ LevelGather

SpecLevel == LevelInit /\ [][LevelNext]_vars

-----------------------------------------------------------------------------
(* crop.py: process_mip_levels.  The level tasks are the units here: what  *)
(* a level's six face extractions return is any list of six booleans       *)
(* (SpecLevel has their steps).                                            *)

Started(t) == levels[t].pc # "new"
Finished(t) == levels[t].pc \in {"done", "raised", "cancelled"}

\* crop.py:269-279: in external mode the loop that creates the mip tasks
\* advances the slot by 1/11 for every index i > 0
LoopAdvances ==
    Cardinality({t \in DOMAIN levels : IsMipTask(t) /\ MipLevelOf(t) > 0})

\* crop.py:237-289: the coordinator enters its own tracker and adds its row
\* to it when none was supplied, creates the tasks of MIP_LEVELS (advancing
\* the external slot as it goes), then the diffuse task, and awaits
\* gather(*tasks)
StartPipeline ==
    /\ co.pc = "idle"
    /\ co' = [co EXCEPT !.pc = "gather"]
    /\ tracker' = IF tracker.mode = "external"
                  THEN Advance(tracker, LoopAdvances)
                  ELSE AddRow(tracker)
    /\ UNCHANGED <<pureVars, sideVars, orchVars, ktxVars, fsVars, composites, levels, faces,
                   spawned, fxlog>>

\* the event loop starts the gathered tasks in the order they were created,
\* each up to its first await
RunTaskBegin ==
    \E t \in DOMAIN levels :
        /\ co.pc = "gather"
        /\ \A u \in DOMAIN levels : u < t => Started(u)
        /\ BeginLevel(t)
        /\ UNCHANGED faces

RunTaskInfo ==
    \E t \in DOMAIN levels, exit \in ProcExits :
        /\ \A u \in DOMAIN levels : Started(u)
        /\ InfoReturns(t, exit)
        /\ UNCHANGED faces

\* two tasks pass their updates at the same time, as threads would
RunTaskFacesInParallel ==
    \E t, u \in DOMAIN levels :
        /\ t # u
        /\ co.loop = "running"
        /\ levels[t].pc = "faces" /\ levels[u].pc = "faces"
        /\ levels' = [levels EXCEPT ![t] = LevelReturn(TRUE),
                                    ![u] = LevelReturn(TRUE)]
        /\ tracker' = [tracker EXCEPT !.stepped = @ + 2]
        /\ UNCHANGED <<pureVars, sideVars, orchVars, ktxVars, fsVars, composites, co, spawned,
                       fxlog, faces>>

RunTaskFaces ==
    \E t \in DOMAIN levels, face_results \in [1 .. FaceCount -> BOOLEAN] :
        /\ \A u \in DOMAIN levels : Started(u)
        /\ FacesGathered(t, face_results)
        /\ UNCHANGED faces

GatherReturnsOnFirstFailure ==
    /\ co.pc = "gather"
    /\ \/ \A t \in DOMAIN levels : levels[t].pc = "done"
       \/ \E t \in DOMAIN levels : levels[t] = [pc |-> "done", ret |-> FALSE]
    /\ co' = [co EXCEPT !.pc = "returned",
                        !.ret = \A t \in DOMAIN levels :
                                    levels[t] = [pc |-> "done", ret |-> TRUE]]
    /\ tracker' = IF tracker.mode = "external" THEN Advance(tracker, 1)
                  ELSE [tracker EXCEPT !.released = @ + 1]
    /\ UNCHANGED <<pureVars, sideVars, orchVars, ktxVars, fsVars, composites, levels, faces,
                   spawned, fxlog>>

\* crop.py:289-303: every task has returned; gather gives the results in
\* task order, the external slot is advanced by 1/11, the coordinator
\* returns all(results) and the finally block releases its own tracker
GatherReturns ==
    /\ co.pc = "gather"
    /\ \A t \in DOMAIN levels : levels[t].pc = "done"
    /\ co' = [co EXCEPT !.pc = "returned",
                        !.ret = AllTrue([t \in DOMAIN levels |-> levels[t].ret])]
    /\ tracker' = IF tracker.mode = "external" THEN Advance(tracker, 1)
                  ELSE [tracker EXCEPT !.released = @ + 1]
    /\ UNCHANGED <<pureVars, sideVars, orchVars, ktxVars, fsVars, composites, levels, faces,
                   spawned, fxlog>>

\* crop.py:289, 300-303: gather (without return_exceptions) passes the first
\* exception of a task on to the coordinator at once; the finally block
\* runs and the exception leaves process_mip_levels.  The other tasks are
\* not cancelled by gather.
GatherRaises ==
    /\ co.pc = "gather"
    /\ \E t \in DOMAIN levels : levels[t].pc = "raised"
    /\ co' = [co EXCEPT !.pc = "raised"]
    /\ tracker' = IF tracker.mode = "external" THEN tracker
                  ELSE [tracker EXCEPT !.released = @ + 1]
    /\ UNCHANGED <<pureVars, sideVars, orchVars, ktxVars, fsVars, composites, levels, faces,
                   spawned, fxlog>>

\* crop.py:307 (asyncio.run): once the coordinator has raised, the event
\* loop is closed and the tasks still pending are cancelled
LoopShutdown ==
    /\ co.pc = "raised"
    /\ co.loop = "running"
    /\ co' = [co EXCEPT !.loop = "closed"]
    /\ levels' = [t \in DOMAIN levels |->
                     IF Finished(t) THEN levels[t]
                     ELSE [pc |-> "cancelled", ret |-> FALSE]]
    /\ UNCHANGED <<pureVars, sideVars, orchVars, ktxVars, fsVars, composites, faces, spawned, fxlog,
                   tracker>>

Init ==
    /\ CropIdle
    /\ composites \in SUBSET RunTasks
    /\ levels = [t \in RunTasks |-> LevelNew]
    /\ faces = <<>>
    /\ spawned = {}
    /\ co = [pc |-> "idle", ret |-> FALSE, loop |-> "running"]
    /\ fxlog = <<>>
    /\ tracker \in {TrackerNew("own"), TrackerNew("external")}

Next ==
    \/ StartPipeline
    \/ RunTaskBegin \/ RunTaskInfo \/ RunTaskFaces
    \/ GatherReturns \/ GatherRaises \/ LoopShutdown

Spec == Init /\ [][Next]_vars

-----------------------------------------------------------------------------
(* Claims on the extraction (Spec, SpecLevel, SpecFace) *)

\* C1: when process_mip_levels returns, each of its tasks (one per mip
\* level and the diffuse one) has returned its own boolean, a task whose
\* composite is missing has returned false without keeping the others from
\* returning theirs, and the result is the AND of the tasks' results (false
\* iff some task returned false).
C1_ResultIsAndOfAllTasks ==
    co.pc = "returned" =>
        /\ DOMAIN levels = RunTasks
        /\ Cardinality(DOMAIN levels) = NumMips + 1
        /\ \A t \in RunTasks : levels[t].pc = "done"
        /\ \A t \in RunTasks : t \notin composites => levels[t].ret = FALSE
        /\ co.ret = (\A t \in RunTasks : levels[t].ret = TRUE)
        /\ (co.ret = FALSE) <=> (\E t \in RunTasks : levels[t].ret = FALSE)

\* only mip 1's composite is missing: it fails, its siblings succeed
C1_Witness ==
    /\ co.pc = "returned" /\ co.ret = FALSE
    /\ composites = RunTasks \ {2}
    /\ levels[2] = [pc |-> "done", ret |-> FALSE]
    /\ \A t \in RunTasks \ {2} : levels[t] = [pc |-> "done", ret |-> TRUE]

\* C2: a level call whose composite exists starts all six face extractions
\* and returns only after all six have returned, with the AND of their six
\* results; the faces that returned true have left their output files,
\* whatever the other faces did.
C2_LevelIsAndOfSixFaces ==
    \A t \in DOMAIN levels :
        /\ (levels[t].pc = "faces") => (\A k \in 1 .. 6 : faces[k].pc # "new")
        /\ (levels[t].pc = "done" /\ t \in composites) =>
              /\ DOMAIN faces = 1 .. 6
              /\ \A k \in 1 .. 6 : faces[k].pc = "done"
              /\ levels[t].ret = (\A k \in 1 .. 6 : faces[k].ret = TRUE)
              /\ \A k \in 1 .. 6 : faces[k].ret => OutputPath(t, k) \in files

\* face 3 of mip 0 fails, the other five complete and their files exist
C2_Witness ==
    /\ DOMAIN levels = {1}
    /\ levels[1] = [pc |-> "done", ret |-> FALSE]
    /\ faces[3] = [pc |-> "done", ret |-> FALSE]
    /\ \A k \in {1, 2, 4, 5, 6} :
          /\ faces[k] = [pc |-> "done", ret |-> TRUE]
          /\ OutputPath(1, k) \in files

\* C3: a level call whose composite does not exist returns false, starts no
\* face extraction and no image tool process, and writes no file.
C3_MissingCompositeNoExtraction ==
    \A t \in DOMAIN levels :
        (t \notin composites /\ levels[t].pc # "new") =>
            /\ levels[t] = [pc |-> "done", ret |-> FALSE]
            /\ \A k \in DOMAIN faces : faces[k].pc = "new"
            /\ t \notin spawned
            /\ files = {}

\* mip 9 without its composite
C3_Witness ==
    /\ DOMAIN levels = {10}
    /\ composites = {}
    /\ levels[10] = [pc |-> "done", ret |-> FALSE]
    /\ dirs = {<<"mip", 9>>}

LogHas(step, exits) ==
    \E n \in 1 .. Len(fxlog) : fxlog[n].step = step /\ fxlog[n].exit \in exits

\* C9: extract_cubemap_face returns false when its cut exits non-zero or
\* when one of its process invocations raises, and true in every other
\* case, whatever the exit codes of the dimension query and of the
\* corrective pass.
C9_FaceResult ==
    \A k \in DOMAIN faces :
        faces[k].pc = "done" =>
            (faces[k].ret = FALSE) <=>
                \/ LogHas("cut", {"nonzero"})
                \/ LogHas("cut", {"raise"})
                \/ LogHas("verify", {"raise"})
                \/ LogHas("resize", {"raise"})

\* true although the dimension query and the corrective pass both exited
\* non-zero
C9_Witness ==
    /\ \E k \in DOMAIN faces : faces[k] = [pc |-> "done", ret |-> TRUE]
    /\ LogHas("cut", {"zero"})
    /\ LogHas("verify", {"nonzero"})
    /\ LogHas("resize", {"nonzero"})

\* C10 (as claimed): no level call and not process_mip_levels ends with an
\* exception when an image tool process cannot be started: the level
\* returns false, no sibling is cut off, the coordinator returns.
C10_NeverRaises ==
    /\ co.pc # "raised"
    /\ \A t \in DOMAIN levels : levels[t].pc \notin {"raised", "cancelled"}

\* the faces of task t whose output file exists
FacesProduced(t) == {k \in 1 .. 6 : OutputPath(t, k) \in files}

\* C11: whenever a level call (a mip level or the diffuse level) returns
\* true, the six files 0001.exr .. 0006.exr of the level have been produced
\* in its directory during the call; a level for which fewer than six files
\* were produced has returned false.
C11_SixFilesOrFalse ==
    \A t \in DOMAIN levels :
        levels[t].pc = "done" =>
            /\ levels[t].ret = TRUE =>
                  /\ TaskDir(t) \in dirs
                  /\ {f \in files : f[1] = TaskDir(t)} =
                        {<<TaskDir(t), <<0, 0, 0, k>>>> : k \in 1 .. 6}
            /\ Cardinality(FacesProduced(t)) < 6 => levels[t].ret = FALSE

\* the diffuse level returns true with its six files written
C11_Witness ==
    /\ DOMAIN levels = {11}
    /\ levels[11] = [pc |-> "done", ret |-> TRUE]
    /\ Cardinality(FacesProduced(11)) = 6
    /\ << <<"diffuse">>, <<0, 0, 0, 6>> >> \in files

-----------------------------------------------------------------------------
(* blender-envmap.py: run_command in parse mode (parse_mip with a tracker   *)
(* and a task id).  A line of the renderer's output is modelled by what the *)
(* two patterns and the two substring tests find in it.                     *)

\* blender-envmap.py:52, 76, 154: the bake row has 11 steps (mip0-9 + diffuse)
BakeTotal == 11

\* the largest N of a "Loading cubemap_mip<N>" line (the pattern takes any
\* number of digits, blender-envmap.py:47)
MaxMarker == 11
\* how many lines the renderer prints
MaxLines == 3

\* blender-envmap.py:62-75: mip_match, its group(1) as an integer (0 when
\* there is no match), diffuse_pattern.search(line), and "Error" in line or
\* "Exception" in line
BakeLines ==
    {l \in [mip_match : BOOLEAN, mip_level : 0 .. MaxMarker,
            diffuse_match : BOOLEAN, error : BOOLEAN] :
        ~l.mip_match => l.mip_level = 0}

NoLine == [mip_match |-> FALSE, mip_level |-> 0, diffuse_match |-> FALSE,
           error |-> FALSE]

BakeIdle ==
    [pc |-> "idle", current_mip |-> -1, completed |-> 0, line |-> NoLine,
     nlines |-> 0, surfaced |-> 0, exit |-> "none", ret |-> FALSE]

\* blender-envmap.py:62-63: an error line is printed to the console
AfterErrorTest(b, line) ==
    IF line.error THEN [b EXCEPT !.surfaced = @ + 1] ELSE b

AfterMipMatchAnyLevel(b, line) ==
    IF line.mip_match
    THEN [b EXCEPT !.current_mip = line.mip_level,
                   !.completed = line.mip_level + 1]
    ELSE b

\* blender-envmap.py:66-72
AfterMipMatch(b, line) ==
    IF line.mip_match /\ line.mip_level > b.current_mip
    THEN [b EXCEPT !.current_mip = line.mip_level,
                   !.completed = line.mip_level + 1]
    ELSE b

\* blender-envmap.py:75-77
AfterDiffuseMatch(b, line) ==
    IF line.diffuse_match THEN [b EXCEPT !.completed = BakeTotal] ELSE b

\* blender-envmap.py:56-77: the body of the loop for one line
ParseLine(b, line) ==
    AfterDiffuseMatch(AfterMipMatch(AfterErrorTest(b, line), line), line)

BakeResultNeedsAllSteps(b, exit) == exit = "zero" /\ b.completed = BakeTotal

\* blender-envmap.py:80-81  process.wait(); return process.returncode == 0
BakeResult(b, exit) == exit = "zero"

\* blender-envmap.py:33-53, 89-91: Popen starts the renderer, or raises and
\* run_command returns False
RunCommandStart(started) ==
    /\ bake.pc = "idle"
    /\ bake' = IF started
               THEN [BakeIdle EXCEPT !.pc = "reading"]
               ELSE [BakeIdle EXCEPT !.pc = "done", !.exit = "raise"]

\* blender-envmap.py:56-77: one more line is read
ReadLine(line) ==
    /\ bake.pc = "reading"
    /\ bake.nlines < MaxLines
    /\ bake' = [ParseLine(bake, line) EXCEPT !.line = line, !.nlines = @ + 1]

\* blender-envmap.py:56, 79-81: the output ends and the renderer exits
RendererExits(exit) ==
    /\ bake.pc = "reading"
    /\ bake' = [bake EXCEPT !.pc = "done", !.exit = exit,
                            !.ret = BakeResult(bake, exit)]

(* SpecBake: one run_command call in parse mode *)

BakeInit ==
    /\ op = "none" /\ arg = [task |-> 1, size |-> 1] /\ ret = <<>>
    /\ lost = 0 /\ ktx = <<>> /\ toolCalls = <<>> /\ SideUnused
    /\ dirs = {} /\ files = {}
    /\ CropUnused
    /\ bake = BakeIdle
    /\ orch = [pc |-> "unused"]

BakeStart ==
    /\ \E started \in BOOLEAN : RunCommandStart(started)
    /\ UNCHANGED <<pureVars, sideVars, fsVars, ktxVars, cropVars, orch>>

BakeLine ==
    /\ \E line \in BakeLines : ReadLine(line)
    /\ UNCHANGED <<pureVars, sideVars, fsVars, ktxVars, cropVars, orch>>

BakeExit ==
    /\ \E exit \in {"zero", "nonzero"} : RendererExits(exit)
    /\ UNCHANGED <<pureVars, sideVars, fsVars, ktxVars, cropVars, orch>>

BakeNext == BakeStart \/ BakeLine \/ BakeExit

SpecBake == BakeInit /\ [][BakeNext]_vars

-----------------------------------------------------------------------------
(* blender-envmap.py: main *)

\* crop.py:229  async def process_mip_levels(external_progress=None,
\*                                           external_task_id=None)
ProcessMipLevelsParams == <<"external_progress", "external_task_id">>

\* blender-envmap.py:181-182
\*   process_mip_levels(progress, task2, white_point=args.white_point)
MainCropCall == [positional |-> 2, keywords |-> {"white_point"}]

\* Python's binding of a call's arguments to a function's parameters: the
\* positional arguments take the first parameters, and every keyword must
\* name one of the others; the call raises TypeError otherwise
Binds(params, call) ==
    /\ call.positional <= Len(params)
    /\ \A kw \in call.keywords :
          \E i \in (call.positional + 1) .. Len(params) : params[i] = kw

Exited(code) == [pc |-> "exited", code |-> code]

\* blender-envmap.py:131-154: without the environment map main returns 1;
\* else it opens the tracker and adds the bake row
MainStart ==
    /\ orch.pc = "start"
    /\ \E env_exists \in BOOLEAN :
          orch' = IF env_exists THEN [orch EXCEPT !.pc = "bake"] ELSE Exited(1)
    /\ UNCHANGED <<pureVars, sideVars, fsVars, ktxVars, cropVars, bake>>

\* blender-envmap.py:164  run_command(blender_cmd, ..., parse_mip=True)
MainBakeStart ==
    /\ orch.pc = "bake"
    /\ \E started \in BOOLEAN : RunCommandStart(started)
    /\ UNCHANGED <<pureVars, sideVars, fsVars, ktxVars, cropVars, orch>>

MainBakeLine ==
    /\ orch.pc = "bake"
    /\ \E line \in BakeLines : ReadLine(line)
    /\ UNCHANGED <<pureVars, sideVars, fsVars, ktxVars, cropVars, orch>>

\* the renderer exits, having written some of the composites (bake_cubemap.py
\* goes on to the next level after a level that failed)
MainBakeExit ==
    /\ orch.pc = "bake"
    /\ \E exit \in {"zero", "nonzero"} : RendererExits(exit)
    /\ \E written \in SUBSET RunTasks : composites' = written
    /\ UNCHANGED <<pureVars, sideVars, fsVars, ktxVars, co, levels, faces, spawned, fxlog,
                   tracker, orch>>

\* blender-envmap.py:164-192: run_command has returned.  After a failed bake
\* main returns 1.  Else it adds the crop row and calls process_mip_levels
\* inside asyncio.run inside a try: a call that does not bind raises
\* TypeError, which the except Exception clause turns into return 1.
MainCropStage ==
    /\ orch.pc = "bake"
    /\ bake.pc = "done"
    /\ IF ~bake.ret
       THEN /\ orch' = Exited(1)
            /\ UNCHANGED <<co, tracker>>
       ELSE IF ~Binds(ProcessMipLevelsParams, MainCropCall)
       THEN /\ orch' = Exited(1)
            /\ UNCHANGED <<co, tracker>>
       ELSE /\ orch' = [orch EXCEPT !.pc = "crop"]
            /\ co' = [co EXCEPT !.pc = "idle"]
            /\ tracker' = TrackerNew("external")
    /\ UNCHANGED <<pureVars, sideVars, fsVars, ktxVars, composites, levels, faces, spawned,
                   fxlog, bake>>

\* blender-envmap.py:183-196: asyncio.run has returned or raised
MainCropReturns ==
    /\ orch.pc = "crop"
    /\ co.pc \in {"returned", "raised"}
    /\ orch' = IF co.pc = "raised" \/ ~co.ret THEN Exited(1)
               ELSE [orch EXCEPT !.pc = "ktx"]
    /\ UNCHANGED <<pureVars, sideVars, fsVars, ktxVars, cropVars, bake>>

\* the container assembly that main imports from create_ktx
\* (blender-envmap.py:14, 200-206): both containers are assembled, and the
\* call succeeds when both did
create_ktx_files ==
    /\ \A c \in DOMAIN ktx : ktx[c].pc = "done"
    /\ ktx["specular"].ret /\ ktx["diffuse"].ret

\* blender-envmap.py:198-231
MainKtxStage ==
    /\ orch.pc = "ktx"
    /\ \A c \in DOMAIN ktx : ktx[c].pc = "done"
    /\ orch' = IF create_ktx_files THEN Exited(0) ELSE Exited(1)
    /\ UNCHANGED <<pureVars, sideVars, fsVars, ktxVars, cropVars, bake>>

(* SpecMain: one run of main.  The call of process_mip_levels never binds  *)
(* (Binds(ProcessMipLevelsParams, MainCropCall) is false), so main is over *)
(* at MainCropStage and the steps of the coordinator, MainCropReturns and  *)
(* MainKtxStage are not steps of this specification.                       *)

MainInit ==
    /\ op = "none" /\ arg = [task |-> 1, size |-> 1] /\ ret = <<>>
    /\ dirs = {} /\ files = {}
    /\ lost = 0 /\ ktx = [c \in {"specular", "diffuse"} |-> KtxIdle]
    /\ toolCalls = <<>> /\ SideUnused
    /\ composites = {}
    /\ co = [pc |-> "uncalled", ret |-> FALSE, loop |-> "running"]
    /\ levels = [t \in RunTasks |-> LevelNew]
    /\ faces = <<>>
    /\ spawned = {}
    /\ fxlog = <<>>
    /\ tracker = TrackerNew("none")
    /\ bake = BakeIdle
    /\ orch = [pc |-> "start", code |-> -1]

MainNext ==
    \/ MainStart
    \/ MainBakeStart \/ MainBakeLine \/ MainBakeExit
    \/ MainCropStage

SpecMain == MainInit /\ [][MainNext]_vars

-----------------------------------------------------------------------------
(* Claims on the orchestrator (SpecMain) *)

\* the bake stage has succeeded
BakeSucceeded == bake.pc = "done" /\ bake.ret

\* a stage has run and reported failure
StageFailed ==
    \/ bake.pc = "done" /\ ~bake.ret
    \/ co.pc = "raised"
    \/ co.pc = "returned" /\ ~co.ret
    \/ \E c \in DOMAIN ktx : ktx[c].pc = "done" /\ ~ktx[c].ret

C13_ExitCode ==
    orch.pc = "exited" =>
        /\ orch.code \in {0, 1}
        /\ orch.code = 1 <=> (bake.pc = "idle" \/ StageFailed)

-----------------------------------------------------------------------------
(* create_ktx.py: main.  SpecKtxMain runs it over the filesystems of        *)
(* SpecKtx; orch holds its position and its exit code.                      *)

\* create_ktx.py:254-255  create_specular_ktx(...)
KtxMainSpecular ==
    /\ orch.pc = "specular"
    /\ create_specular_ktx

\* create_ktx.py:255-257: after a failure main leaves with sys.exit(1)
KtxMainSpecularReturned ==
    /\ orch.pc = "specular"
    /\ ktx["specular"].pc = "done"
    /\ orch' = IF ktx["specular"].ret THEN [orch EXCEPT !.pc = "diffuse"]
               ELSE Exited(1)
    /\ UNCHANGED <<pureVars, sideVars, fsVars, ktxVars, cropVars, bake>>

\* create_ktx.py:259-260  create_diffuse_ktx(...)
KtxMainDiffuse ==
    /\ orch.pc = "diffuse"
    /\ create_diffuse_ktx

\* create_ktx.py:260-269: sys.exit(1) after a failure; else main returns
\* and the interpreter exits with 0
KtxMainDiffuseReturned ==
    /\ orch.pc = "diffuse"
    /\ ktx["diffuse"].pc = "done"
    /\ orch' = IF ktx["diffuse"].ret THEN Exited(0) ELSE Exited(1)
    /\ UNCHANGED <<pureVars, sideVars, fsVars, ktxVars, cropVars, bake>>

KtxMainInit ==
    /\ op = "none" /\ arg = [task |-> 1, size |-> 1] /\ ret = <<>>
    /\ dirs = AllDirs
    /\ files = AllFiles
    /\ lost = 0
    /\ ktx = [c \in {"specular", "diffuse"} |-> KtxIdle]
    /\ toolCalls = <<>> /\ SideUnused
    /\ CropUnused
    /\ bake = [pc |-> "unused"]
    /\ orch = [pc |-> "specular", code |-> -1]

KtxMainNext ==
    \/ LoseFile \/ LoseDir
    \/ KtxMainSpecular \/ KtxMainSpecularReturned
    \/ KtxMainDiffuse \/ KtxMainDiffuseReturned

SpecKtxMain == KtxMainInit /\ [][KtxMainNext]_vars

-----------------------------------------------------------------------------
(* Claims on the container assembly, continued (SpecKtx, SpecKtxMain) *)

\* the files the diffuse container needs
DiffuseRequired == {<< <<"diffuse">>, <<0, 0, 0, k>> >> : k \in 1 .. 6}

RequiredFiles(c) == IF c = "specular" THEN SpecularRequired ELSE DiffuseRequired

\* C14 (as claimed): create_specular_ktx and create_diffuse_ktx return
\* success exactly when every required file is present and the container
\* tool has exited 0, and failure exactly when a required file is missing or
\* the tool exited non-zero (or could not be run); nothing after an exit 0
\* turns the result into a failure.
C14_SuccessIffFilesAndExitZero ==
    \A c \in DOMAIN ktx :
        ktx[c].pc = "done" =>
            (ktx[c].ret = TRUE <=>
                (RequiredFiles(c) \subseteq files /\ ktx[c].exit = "zero"))

\* C15 (as claimed): when create_ktx.py's main is over, both container
\* assemblies have been attempted and have reported their results, also
\* when one of them has failed.
C15_BothAttempted ==
    orch.pc = "exited" => \A c \in DOMAIN ktx : ktx[c].pc = "done"

\* the invocations of the container tool that write the diffuse container
DiffuseCalls ==
    {n \in 1 .. Len(toolCalls) : toolCalls[n].out = "_diffuse.ktx2"}

\* C16: create_diffuse_ktx returns failure without invoking the container
\* tool when the diffuse directory or one of diffuse/0001.exr .. 0006.exr
\* is missing; otherwise it invokes the tool exactly once, with the six
\* files in ascending face order and --levels 1.
C16_DiffuseCheckThenInvoke ==
    ktx["diffuse"].pc = "done" =>
        IF DiffuseDir \in dirs /\ DiffuseRequired \subseteq files
        THEN /\ Cardinality(DiffuseCalls) = 1
             /\ \A n \in DiffuseCalls :
                   /\ toolCalls[n].levels = 1
                   /\ toolCalls[n].files =
                         [k \in 1 .. 6 |-> << <<"diffuse">>, <<0, 0, 0, k>> >>]
        ELSE /\ ktx["diffuse"].ret = FALSE
             /\ DiffuseCalls = {}

\* diffuse/0004.exr is missing: failure and no invocation for the diffuse
\* container, while the specular container was built
C16_Witness ==
    /\ ktx["diffuse"] = [pc |-> "done", ret |-> FALSE, exit |-> "none",
                         info |-> "none"]
    /\ files = AllFiles \ {<< <<"diffuse">>, <<0, 0, 0, 4>> >>}
    /\ DiffuseCalls = {}
    /\ Cardinality(SpecularCalls) = 1

-----------------------------------------------------------------------------
(* Claims on the bake progress parser (SpecBake) *)

\* a step of the parser that reads one line
ReadsLine ==
    bake.pc = "reading" /\ bake'.pc = "reading" /\ bake'.nlines = bake.nlines + 1

\* C17: the parser starts with currentMip = -1; a line with the mip-N marker
\* and N > currentMip sets currentMip to N and the counter to N+1, a mip-N
\* marker with N <= currentMip changes neither, a line with the diffuse
\* marker sets the counter to 11 (the markers being tested in this order on
\* each line), and any other line changes neither.
C17_ParserStep ==
    [][ /\ (bake.pc = "idle" /\ bake'.pc = "reading") =>
              bake'.current_mip = -1 /\ bake'.completed = 0
        /\ ReadsLine =>
              LET l == bake'.line
                  newer == l.mip_match /\ l.mip_level > bake.current_mip
              IN  /\ bake'.current_mip =
                        IF newer THEN l.mip_level ELSE bake.current_mip
                  /\ bake'.completed =
                        IF l.diffuse_match THEN 11
                        ELSE IF newer THEN l.mip_level + 1
                        ELSE bake.completed
      ]_vars

\* after the mip-3 marker, a mip-1 marker has changed nothing
C17_Witness ==
    /\ bake.pc = "reading"
    /\ bake.nlines = 2
    /\ bake.line = [mip_match |-> TRUE, mip_level |-> 1,
                    diffuse_match |-> FALSE, error |-> FALSE]
    /\ bake.current_mip = 3
    /\ bake.completed = 4

-----------------------------------------------------------------------------
(* Claims on the progress tracker of process_mip_levels (Spec) *)

\* the stages (mip levels and diffuse) that have completed
CompletedStages == {t \in DOMAIN levels : levels[t].pc = "done"}

\* C19 (as claimed): with an external tracker the coordinator advances the
\* slot by 1/11 once per completed stage: at every point the number of 1/11
\* advances made so far is at most the number of stages that have
\* completed, and no sub-task row is added to the external tracker.
C19_AdvancePerCompletedStage ==
    tracker.mode = "external" =>
        /\ tracker.advances <= Cardinality(CompletedStages)
        /\ tracker.rows = 0

\* C20 (as claimed): a tracker that process_mip_levels created is released
\* exactly once on every way out (return or exception) and not before
\* every task it awaits has finished; an external tracker is never released.
C20_ReleasedOnceAfterAllTasks ==
    /\ tracker.mode = "external" => tracker.released = 0
    /\ tracker.mode = "own" =>
          /\ tracker.released = IF co.pc \in {"returned", "raised"} THEN 1 ELSE 0
          /\ tracker.released > 0 => \A t \in DOMAIN levels : Finished(t)

-----------------------------------------------------------------------------
(* Claims on concurrency and paths (Spec, SpecPure) *)

\* the tasks that take a step, and whether the coordinator does
SteppingTasks == {t \in DOMAIN levels : levels'[t] # levels[t]}
CoordinatorSteps == IF co' # co THEN 1 ELSE 0

C22_PathsDisjoint ==
    op = "paths" =>
        /\ \A k \in 1 .. 6 :
              /\ \A u \in 1 .. 11, j \in 1 .. 6 :
                    (u # arg.task \/ j # k) => OutputFilePath(u, j) # ret.out[k]
              /\ \A u \in 1 .. 11 : CompositePath(u) # ret.out[k]
        /\ Cardinality({OutputFilePath(u, j) : u \in 1 .. 11, j \in 1 .. 6}) = 66
        /\ Cardinality({CompositePath(u) : u \in 1 .. 11}) = 11

C22_Witness ==
    /\ op = "paths" /\ arg.task = 10
    /\ ret.inp = << <<"output">>, <<"cubemap_mip", 9>>, <<"hdr">> >>
    /\ ret.out[6] = << <<"output">>, <<"cropped">>, <<"mip", 9>>, <<0, 0, 0, 6>>,
                       <<"exr">> >>

-----------------------------------------------------------------------------
(* SpecFair: Spec with every process that was started ending at some time, *)
(* and the event loop running every step that is ready                     *)

SpecFair == Init /\ [][Next]_vars /\ WF_vars(Next)

\* C23: there is no timeout and no cancellation in the extraction: when
\* every process spawned during extraction ends, process_mip_levels
\* returns at some time, and no level task is ever cancelled
C23_ReturnsAndNeverCancels ==
    /\ <>(co.pc = "returned")
    /\ [](\A t \in DOMAIN levels : levels[t].pc # "cancelled")

\* what does hold: process_mip_levels ends at some time, by returning or
\* by raising, and it returns only after every level task has returned
C23_Terminates ==
    /\ <>(co.pc \in {"returned", "raised"})
    /\ [](co.pc = "returned" => \A t \in DOMAIN levels : levels[t].pc = "done")

\* the entries of fxlog for the corrective pass
ResizeRuns == {n \in 1 .. Len(fxlog) : fxlog[n].step = "resize"}

\* C24 (as claimed): after a cut that exited 0, when the dimension query
\* reported dimensions, the corrective pass ran exactly once if they are
\* not size x size and not at all if they are; when it ran and ended, with
\* whatever exit code, the call returned true.
C24_CorrectiveIffWrongSize ==
    \A k \in DOMAIN faces :
        faces[k].pc = "done" /\ LogHas("cut", {"zero"}) =>
            \A n \in 1 .. Len(fxlog) :
                fxlog[n].step = "verify" /\ fxlog[n].exit # "raise"
                    /\ fxlog[n].rep # <<>> =>
                    /\ Cardinality(ResizeRuns) =
                          IF fxlog[n].rep = <<TaskFaceSize(TheTask), TaskFaceSize(TheTask)>>
                          THEN 0 ELSE 1
                    /\ LogHas("resize", {"zero", "nonzero"}) => faces[k].ret = TRUE

\* what does hold: the corrective pass ran exactly once if the text
\* f"{size} x {size}" does not occur in the output of the dimension query,
\* and not at all if it occurs
C24_CorrectiveIffTextAbsent ==
    \A k \in DOMAIN faces :
        faces[k].pc = "done" /\ LogHas("cut", {"zero"}) =>
            \A n \in 1 .. Len(fxlog) :
                fxlog[n].step = "verify" /\ fxlog[n].exit # "raise" =>
                    /\ Cardinality(ResizeRuns) = IF fxlog[n].found THEN 0 ELSE 1
                    /\ LogHas("resize", {"zero", "nonzero"}) => faces[k].ret = TRUE

-----------------------------------------------------------------------------
(* SpecTwice: extract_cubemap_face called twice with the same arguments,   *)
(* the composite unchanged in between, and an image tool that does the     *)
(* same at every invocation with the same arguments and the same files.    *)
(* The content of the output file is <<width, height, generation>>: the    *)
(* cut writes generation 0 and each re-encode gives the next generation.   *)

NoFile == <<>>

\* what the cut of a size x size rectangle can produce
CutSizes(size) == {size, size + 1}

\* the image tool: how a cut of the composite ends and what dimensions it
\* writes, how the dimension query ends (it raises, prints nothing, or
\* prints the dimensions of the file), how a re-encode ends
Tools(size) ==
    [cut : ProcExits, w : CutSizes(size), h : CutSizes(size),
     verify : {"raise", "silent", "reports"}, resize : ProcExits]

\* the cut leaves an output file alone that exists already
CutKeepsExisting(tl, old) ==
    IF old # NoFile THEN old ELSE <<tl.w, tl.h, 0>>

\* crop.py:26-40: oiiotool input --cut ... -o output_path writes the output
\* file anew from the composite, whatever was there
CutWrites(tl, old) == <<tl.w, tl.h, 0>>

\* crop.py:63-75: oiiotool output_path -o output_path reads the file and
\* writes it again
Reencode(c) == <<c[1], c[2], c[3] + 1>>

\* crop.py:48-57: the dimension query on the file as it is
ToolVerify(tl, c, size) ==
    IF tl.verify = "raise" THEN VerifyOutcome("raise", <<>>, size)
    ELSE IF tl.verify = "silent" THEN VerifyOutcome("nonzero", <<>>, size)
    ELSE VerifyOutcome("zero", <<c[1], c[2]>>, size)

FaceStart == [pc |-> "cut", ret |-> FALSE]

TwiceInit ==
    /\ op = "none" /\ arg = [task |-> 1, size |-> 1] /\ ret = <<>>
    /\ lost = 0 /\ ktx = <<>> /\ toolCalls = <<>>
    /\ dirs = {} /\ files = {}
    /\ OrchUnused /\ RenderUnused
    /\ \E t \in AllTasks :
          /\ levels = [x \in {t} |-> [pc |-> "faces", ret |-> FALSE]]
          /\ composites = {t}
          /\ spawned = {t}
          /\ tool \in Tools(TaskFaceSize(t))
          /\ content \in {NoFile, <<TaskFaceSize(t), TaskFaceSize(t), 1>>}
    /\ faces = <<FaceStart>>
    /\ co = [pc |-> "direct", ret |-> FALSE, loop |-> "running"]
    /\ fxlog = <<>>
    /\ tracker = TrackerNew("none")
    /\ runs = <<>>

twiceFrame ==
    <<pureVars, orchVars, ktxVars, dirs, composites, co, levels, spawned, fxlog,
      tracker, tool, render>>

\* crop.py:34-44: the cut ends
TwiceCut ==
    /\ faces[1].pc = "cut"
    /\ faces' = [faces EXCEPT ![1] = AfterCut(tool.cut)]
    /\ content' = IF tool.cut = "zero" THEN CutWrites(tool, content) ELSE content
    /\ files' = IF tool.cut = "zero" THEN files \cup {OutputPath(TheTask, 1)}
                ELSE files
    /\ UNCHANGED <<twiceFrame, runs>>

\* crop.py:46-60: the dimension query ends
TwiceVerify ==
    /\ faces[1].pc = "verify"
    /\ faces' = [faces EXCEPT ![1] =
                    AfterVerify(ToolVerify(tool, content, TaskFaceSize(TheTask)))]
    /\ UNCHANGED <<twiceFrame, runs, content, files>>

\* crop.py:63-80: the corrective pass ends
TwiceResize ==
    /\ faces[1].pc = "resize"
    /\ faces' = [faces EXCEPT ![1] = AfterResize(tool.resize)]
    /\ content' = IF tool.resize = "zero" THEN Reencode(content) ELSE content
    /\ UNCHANGED <<twiceFrame, runs, files>>

\* the call has returned; the caller notes its result and the output file,
\* and after the first call makes the second
TwiceReturn ==
    /\ faces[1].pc = "done"
    /\ Len(runs) < 2
    /\ runs' = Append(runs, [ret |-> faces[1].ret, content |-> content])
    /\ faces' = IF Len(runs) = 0 THEN <<FaceStart>> ELSE faces
    /\ UNCHANGED <<twiceFrame, content, files>>

TwiceNext == TwiceCut \/ TwiceVerify \/ TwiceResize \/ TwiceReturn

SpecTwice == TwiceInit /\ [][TwiceNext]_vars

CorrectlySized(c, size) == c # NoFile /\ c[1] = size /\ c[2] = size

\* C25: extract_cubemap_face is idempotent: when the first call left a
\* correctly sized output file, a second call with the same arguments
\* leaves the file's content as it was after the first and returns the
\* same result.
C25_Idempotent ==
    Len(runs) = 2 /\ CorrectlySized(runs[1].content, TaskFaceSize(TheTask)) =>
        /\ runs[2].content = runs[1].content
        /\ runs[2].ret = runs[1].ret

\* both calls of a size 8 extraction re-encoded the file they had cut
C25_Witness ==
    /\ Len(runs) = 2
    /\ TaskFaceSize(TheTask) = 8
    /\ runs[1] = [ret |-> TRUE, content |-> <<8, 8, 1>>]
    /\ runs[2] = [ret |-> TRUE, content |-> <<8, 8, 1>>]
    /\ tool.verify = "silent"

-----------------------------------------------------------------------------
(* SpecRender: bake_cubemap.py, the script the renderer runs: bake_cubemap *)
(* and the exit code the script ends with                                  *)

\* bake_cubemap.py:252
max_mip_levels == 10

\* bake_cubemap.py:261, 291: the names of the images, in the order of the
\* attempts
BakeOrder ==
    [i \in 1 .. (max_mip_levels + 1) |->
        IF i <= max_mip_levels THEN <<"cubemap_mip", i - 1>> ELSE <<"cubemap_diffuse">>]

\* how the bake of one image ends: saved, bake_single_cubemap returned
\* False (bake_cubemap.py:225-236), an exception left the attempt
\* (bake_cubemap.py:238-242, 271-272, 315-316), or an exception left the
\* steps around the attempt, which only the outer handler catches
\* (bake_cubemap.py:262-265, 294-300, 335-337)
BakeOutcomes == {"saved", "false", "raise", "fatal"}

RenderIdle ==
    [pc |-> "start", mip |-> 0, attempted |-> <<>>, written |-> {},
     failed |-> {}, fatal |-> FALSE, ret |-> FALSE, code |-> -1]

RenderInit ==
    /\ op = "none" /\ arg = [task |-> 1, size |-> 1] /\ ret = <<>>
    /\ lost = 0 /\ ktx = <<>> /\ toolCalls = <<>>
    /\ dirs = {} /\ files = {}
    /\ CropUnused /\ OrchUnused /\ RerunUnused
    /\ render = RenderIdle

renderFrame ==
    <<pureVars, fsVars, ktxVars, cropVars, orchVars, tool, content, runs>>

\* bake_cubemap.py:246-253, 11-17: get_cube_probe ends the script with
\* exit code 1 when the scene has no CubeProbe
RenderStart(found) ==
    /\ render.pc = "start"
    /\ render' = IF found THEN [render EXCEPT !.pc = "mips"]
                 ELSE [render EXCEPT !.pc = "exited", !.code = 1]
    /\ UNCHANGED renderFrame

\* what an attempt does to the record of attempts
Attempt(r, name, outcome) ==
    [r EXCEPT !.attempted = Append(@, name),
              !.written = IF outcome = "saved" THEN @ \cup {name} ELSE @,
              !.failed = IF outcome = "saved" THEN @ ELSE @ \cup {name}]

\* the first failed bake ends bake_cubemap with False
AfterMipBakeAborting(r, outcome) ==
    IF outcome = "fatal" THEN [r EXCEPT !.pc = "returned", !.fatal = TRUE]
    ELSE IF outcome # "saved"
    THEN [Attempt(r, BakeOrder[r.mip + 1], outcome) EXCEPT !.pc = "returned"]
    ELSE [Attempt(r, BakeOrder[r.mip + 1], outcome) EXCEPT
             !.mip = @ + 1,
             !.pc = IF r.mip + 1 = max_mip_levels THEN "diffuse" ELSE "mips"]

\* bake_cubemap.py:256-289: one turn of the loop over the mip levels; a
\* bake that failed is reported and the loop goes on (continue)
AfterMipBake(r, outcome) ==
    IF outcome = "fatal" THEN [r EXCEPT !.pc = "returned", !.fatal = TRUE]
    ELSE [Attempt(r, BakeOrder[r.mip + 1], outcome) EXCEPT
             !.mip = @ + 1,
             !.pc = IF r.mip + 1 = max_mip_levels THEN "diffuse" ELSE "mips"]

RenderMip(outcome) ==
    /\ render.pc = "mips"
    /\ render.mip < max_mip_levels
    /\ render' = AfterMipBake(render, outcome)
    /\ UNCHANGED renderFrame

\* bake_cubemap.py:291-337: the diffuse image is baked, and bake_cubemap
\* returns True whether that bake succeeded or not
RenderDiffuse(outcome) ==
    /\ render.pc = "diffuse"
    /\ render' =
          IF outcome = "fatal" THEN [render EXCEPT !.pc = "returned", !.fatal = TRUE]
          ELSE [Attempt(render, BakeOrder[max_mip_levels + 1], outcome) EXCEPT
                   !.pc = "returned", !.ret = TRUE]
    /\ UNCHANGED renderFrame

\* bake_cubemap.py:379-384: the script ends with exit code 1 when
\* bake_cubemap returned False, and with 0 otherwise
RenderExit ==
    /\ render.pc = "returned"
    /\ render' = [render EXCEPT !.pc = "exited",
                                !.code = IF render.ret THEN 0 ELSE 1]
    /\ UNCHANGED renderFrame

RenderNext ==
    \/ \E found \in BOOLEAN : RenderStart(found)
    \/ \E outcome \in BakeOutcomes : RenderMip(outcome)
    \/ \E outcome \in BakeOutcomes : RenderDiffuse(outcome)
    \/ RenderExit

SpecRender == RenderInit /\ [][RenderNext]_vars

\* C26: a failed bake of one level is contained: the attempts are made on
\* mip 0..9 in ascending order and then on the diffuse image; when no
\* exception left the steps around the attempts, all eleven are attempted
\* whichever of them failed, bake_cubemap returns True, the script ends
\* with exit code 0, and the composites written are those of the levels
\* whose bake did not fail.
C26_FailedBakeContained ==
    /\ render.pc # "unused" =>
          render.attempted = SubSeq(BakeOrder, 1, Len(render.attempted))
    /\ render.pc \in {"returned", "exited"} /\ ~render.fatal /\ render.code # 1 =>
          /\ render.attempted = BakeOrder
          /\ render.ret = TRUE
          /\ render.written = {BakeOrder[i] : i \in DOMAIN BakeOrder} \ render.failed
    /\ render.pc = "exited" /\ ~render.fatal /\ render.attempted # <<>> =>
          render.code = 0

\* the bakes of mip 0 and mip 3 failed, every other level was written and
\* the script ended with exit code 0
C26_Witness ==
    /\ render.pc = "exited"
    /\ render.code = 0
    /\ render.failed = {<<"cubemap_mip", 0>>, <<"cubemap_mip", 3>>}
    /\ Len(render.attempted) = 11
    /\ <<"cubemap_diffuse">> \in render.written

\* C27 (as claimed): whatever lines the renderer prints, the counter of
\* the bake row never decreases and never exceeds its total of 11.
C27_CounterMonotoneBounded ==
    [][/\ bake'.completed >= bake.completed
       /\ bake'.completed <= BakeTotal]_vars

\* the two parts of C27 one by one
C27_NeverDecreases == [][bake'.completed >= bake.completed]_vars
C27_NeverExceedsTotal == bake.completed <= BakeTotal

\* C28 (as claimed): when process_mip_levels has returned in external
\* mode, the slot has been advanced by 1/11 once for every level of the
\* run (11 times for the ten mip levels and the diffuse level), whichever
\* levels succeeded or failed.
C28_SlotAdvancedToTotal ==
    co.pc = "returned" /\ tracker.mode = "external" =>
        tracker.advances = Cardinality(DOMAIN levels)

\* what does hold: the advances fall short of the total by one exactly
\* when the diffuse composite is absent
C28_SlotShortWithoutDiffuse ==
    co.pc = "returned" /\ tracker.mode = "external" =>
        tracker.advances =
            Cardinality(DOMAIN levels)
                - (IF \E t \in DOMAIN levels : ~IsMipTask(t) /\ t \notin composites
                   THEN 1 ELSE 0)

-----------------------------------------------------------------------------
(* SpecPipe: process_mip_levels over all ten mip levels and the diffuse    *)
(* level, starting from an empty output/cropped, followed by               *)
(* create_specular_ktx.  The levels write to disjoint paths (C22), so      *)
(* their processes are taken to end in task order (Spec has the            *)
(* interleavings); at most MaxFaults things go wrong in a run.             *)

MaxFaults == 1

\* the level whose processes end next
Current == CHOOSE t \in DOMAIN levels :
               /\ ~Finished(t)
               /\ \A u \in DOMAIN levels : u < t => Finished(u)

LevelFiles(t) == {OutputPath(t, k) : k \in 1 .. FaceCount}

\* what went wrong so far: composites absent, info queries that raised,
\* levels that returned False with all six files written, and face files
\* that were not written (the files there are belong to the levels that
\* are done)
FaultsSoFar ==
    Cardinality(DOMAIN levels \ composites)
      + Cardinality({u \in DOMAIN levels : levels[u].pc = "raised"})
      + Cardinality({u \in composites : /\ levels[u] = LevelReturn(FALSE)
                                          /\ LevelFiles(u) \subseteq files})
      + (FaceCount * Cardinality({u \in composites : levels[u].pc = "done"})
            - Cardinality(files))

PipeInit ==
    /\ op = "none" /\ arg = [task |-> 1, size |-> 1] /\ ret = <<>>
    /\ dirs = {} /\ files = {}
    /\ lost = 0
    /\ ktx = [c \in {"specular", "diffuse"} |-> KtxIdle]
    /\ toolCalls = <<>> /\ SideUnused
    /\ OrchUnused
    /\ \E absent \in SUBSET AllTasks :
          /\ Cardinality(absent) <= MaxFaults
          /\ composites = AllTasks \ absent
    /\ levels = [t \in AllTasks |-> LevelNew]
    /\ faces = <<>>
    /\ spawned = {}
    /\ co = [pc |-> "idle", ret |-> FALSE, loop |-> "running"]
    /\ fxlog = <<>>
    /\ tracker \in {TrackerNew("own"), TrackerNew("external")}

\* crop.py:110-116: the info query of the current level ends
PipeInfo ==
    /\ \A u \in DOMAIN levels : Started(u)
    /\ \E u \in DOMAIN levels : ~Finished(u)
    /\ levels[Current].pc = "info"
    /\ \E t \in {Current}, exit \in ProcExits :
          /\ exit = "raise" => FaultsSoFar < MaxFaults
          /\ InfoReturns(t, exit)
          /\ UNCHANGED faces

\* crop.py:20-83, 139-152: the six extract_cubemap_face calls of the
\* current level end (SpecLevel has their steps): the cuts that exited 0
\* have written their files, and a face returns True when its file was
\* written and none of its later processes raised
PipeExtract ==
    /\ co.loop = "running"
    /\ faces = <<>>
    /\ \A u \in DOMAIN levels : Started(u)
    /\ \E u \in DOMAIN levels : ~Finished(u)
    /\ levels[Current].pc = "faces"
    /\ \E t \in {Current}, spare \in {MaxFaults - FaultsSoFar} :
       \E written \in SUBSET (1 .. FaceCount), later_raise \in BOOLEAN :
           /\ later_raise => written = 1 .. FaceCount
           /\ (FaceCount - Cardinality(written))
                 + (IF later_raise THEN 1 ELSE 0) <= spare
           /\ files' = files \cup {OutputPath(t, k) : k \in written}
           /\ faces' = [k \in 1 .. FaceCount |->
                            FaceReturn(k \in written /\ ~later_raise)]
    /\ UNCHANGED <<pureVars, sideVars, orchVars, ktxVars, dirs, composites, co,
                   levels, spawned, fxlog, tracker>>

\* crop.py:152-166, 214-227: the current level has its six results
PipeGather ==
    /\ faces # <<>>
    /\ co.loop = "running"
    /\ \E t \in {Current} :
          FacesGathered(t, [k \in DOMAIN faces |-> faces[k].ret])
    /\ faces' = <<>>

\* create_ktx.py:27-125, called once process_mip_levels has returned
PipeKtx ==
    /\ co.pc = "returned"
    /\ create_specular_ktx

PipeNext ==
    \/ StartPipeline
    \/ RunTaskBegin \/ PipeInfo \/ PipeExtract \/ PipeGather
    \/ GatherReturns \/ GatherRaises \/ LoopShutdown
    \/ PipeKtx

SpecPipe == PipeInit /\ [][PipeNext]_vars

\* C30: once process_mip_levels has returned, the directories mip0..mip9
\* and diffuse all exist, so the create_specular_ktx that follows finds
\* the directory of each of its levels (it skips none), returns False
\* without invoking the tool when one of the 54 files is absent, and
\* invokes the tool only when all 54 exist.
C30_NoSkipAfterExtraction ==
    co.pc = "returned" /\ Cardinality(DOMAIN levels) = MipCount + 1 =>
        /\ AllDirs \subseteq dirs
        /\ ktx["specular"].pc = "done" =>
              IF SpecularRequired \subseteq files
              THEN Cardinality(SpecularCalls) = 1
              ELSE SpecularCalls = {} /\ ktx["specular"].ret = FALSE

\* the composite of mip 3 was absent: its directory exists without files,
\* and create_specular_ktx returned False without invoking the tool
C30_Witness ==
    /\ co.pc = "returned"
    /\ 4 \notin composites
    /\ <<"mip", 3>> \in dirs
    /\ Cardinality(files) = 60
    /\ ktx["specular"] = [pc |-> "done", ret |-> FALSE, exit |-> "none", info |-> "none"]
    /\ toolCalls = <<>>

====
